---- MODULE Spec2Model ----
(***************************************************************************)
(* Model of app/components/dufs_dialog.py: the ParseDufsThread worker      *)
(* (breadth-first crawl of a dufs JSON listing) and the DufsDialog UI      *)
(* handlers that start, stop and consume it.                               *)
(*                                                                         *)
(* A URL is the sequence of its path segments below the host; a directory  *)
(* URL is understood to end with "/".  An entry name is a sequence of      *)
(* components, so that names such as "./a" or "../a" resolve as urljoin    *)
(* resolves them.                                                          *)
(***************************************************************************)
EXTENDS Integers, Sequences, FiniteSets, TLC

\* ---------------------------------------------------------------- bounds
MaxStarts == 2          \* number of start_parsing calls explored

MaxStopCalls == 2       \* number of stop() calls explored on one thread

Runs == 1..MaxStarts

\* ------------------------------------------------------ sequence helpers
Front(s) == SubSeq(s, 1, Len(s) - 1)

IsPrefix(p, s) == Len(p) <= Len(s) /\ SubSeq(s, 1, Len(p)) = p

\* ------------------------------------------------------------- the server
\* The text of urlLineEdit: its path segments, whether it ends with "/" and
\* whether it is padded with blanks.  The empty text has no segments.
Text(segs, slash, pad) == [path |-> segs, slash |-> slash, pad |-> pad]

NoUrl == Text(<< >>, FALSE, FALSE)

RootUrl == <<"files">>

UrlInputs == {NoUrl} \cup {Text(RootUrl, s, p) : s \in BOOLEAN, p \in BOOLEAN}

\* lines 23-26: url.strip(), then a "/" is appended unless one ends it; the
\* result is a directory URL
InitialUrl(url) == url.path

Servers == {"tree", "graph"}

E(n, t) == [name |-> n, path_type |-> t]

\* A proper directory tree of depth 2.
TreeListing(url) ==
    CASE url = <<"files">>           -> << E(<<"a">>, "Dir"), E(<<"f">>, "File") >>
      [] url = <<"files", "a">>      -> << E(<<"g">>, "File"), E(<<"b">>, "Dir") >>
      [] url = <<"files", "a", "b">> -> << E(<<"h">>, "File") >>
      [] OTHER                       -> << >>

\* Listings with a duplicate link ("a" and "./a") and a cycle ("../a").
GraphListing(url) ==
    CASE url = <<"files">>      -> << E(<<"a">>, "Dir"), E(<<".", "a">>, "Dir"),
                                      E(<<"f">>, "File") >>
      [] url = <<"files", "a">> -> << E(<<"..", "a">>, "Dir"), E(<<"g">>, "File") >>
      [] OTHER                  -> << >>

\* A tree with two directories under the root, one of them with a
\* subdirectory listed between two files.
WideListing(url) ==
    CASE url = <<"files">>           -> << E(<<"a">>, "Dir"), E(<<"f">>, "File"),
                                           E(<<"c">>, "Dir") >>
      [] url = <<"files", "a">>      -> << E(<<"g">>, "File"), E(<<"b">>, "Dir"),
                                           E(<<"k">>, "File") >>
      [] url = <<"files", "c">>      -> << E(<<"m">>, "File") >>
      [] url = <<"files", "a", "b">> -> << E(<<"h">>, "File") >>
      [] OTHER                       -> << >>

Listing(srv, url) ==
    CASE srv = "tree"  -> TreeListing(url)
      [] srv = "graph" -> GraphListing(url)
      [] srv = "wide"  -> WideListing(url)

Exists(srv, url) ==
    CASE srv = "tree"  -> url \in {<<"files">>, <<"files", "a">>, <<"files", "a", "b">>}
      [] srv = "graph" -> url \in {<<"files">>, <<"files", "a">>}
      [] srv = "wide"  -> url \in {<<"files">>, <<"files", "a">>, <<"files", "c">>,
                                   <<"files", "a", "b">>}

\* The href a listing declares: the graph server declares "/", the others
\* declare the directory's path.
Href(srv, url) == IF srv = "graph" THEN << >> ELSE url

\* What a request can come back with.  "status" is a response whose status
\* is not 200; "exception" is urlopen raising; "badjson" is json.loads
\* raising.  A URL the server does not have is never answered with "ok".
Outcomes(srv, url) ==
    IF Exists(srv, url) THEN {"ok", "status", "exception", "badjson"}
    ELSE {"status", "exception"}

\* ------------------------------------------------------------- URL helpers
RECURSIVE RemoveDots(_, _)
RemoveDots(segs, acc) ==
    IF segs = << >> THEN acc
    ELSE IF Head(segs) = "." THEN RemoveDots(Tail(segs), acc)
    ELSE IF Head(segs) = ".."
         THEN RemoveDots(Tail(segs), IF acc = << >> THEN acc ELSE Front(acc))
    ELSE RemoveDots(Tail(segs), Append(acc, Head(segs)))

\* urljoin(current_url, quote(name)) for a directory URL current_url
UrlJoin(current_url, name) == RemoveDots(current_url \o name, << >>)

\* unquote(full_url.replace(self.initial_url, ''))
RelativePath(initial_url, full_url) ==
    IF IsPrefix(initial_url, full_url)
    THEN SubSeq(full_url, Len(initial_url) + 1, Len(full_url))
    ELSE full_url

\* root_folder_name, lines 52-54
RootFolderName(initial_url, href) ==
    IF href # << >> THEN href
    ELSE IF initial_url = << >> THEN << >>
    ELSE << initial_url[Len(initial_url)] >>

\* ------------------------------------------------------------------ state
VARIABLES
    server,         \* which server answers the requests
    threads,        \* ParseDufsThread objects, by creation number
    hist,           \* per thread: what it requested, what failed, what it emitted
    parse_thread,   \* DufsDialog.parse_thread: 0 is None
    uiPc,           \* where the UI thread is: idle, or blocked in wait()
    visible,        \* DufsDialog.isVisible()
    parseEnabled,   \* parseButton.isEnabled()
    yesEnabled,     \* yesButton.isEnabled()
    root_folder,    \* DufsDialog.root_folder
    fileTree,       \* the items of DufsDialog.fileTree
    eventQueue,     \* queued signal deliveries of the UI event loop
    ui,             \* bookkeeping of handler calls
    fileSystem,     \* the local paths that exist: directories and regular files
    download,       \* what start_download did: makedirs calls, tasks submitted
    calc            \* inputs and results of the string helpers

workerVars == <<threads, hist>>
dialogVars == <<visible, parseEnabled, yesEnabled, root_folder, fileTree>>
extraVars == <<fileSystem, download, calc>>
vars == <<server, threads, hist, parse_thread, uiPc, visible, parseEnabled,
          yesEnabled, root_folder, fileTree, eventQueue, ui, fileSystem,
          download, calc>>

\* A thread object that does not exist (not yet created, or dropped).
NoThread ==
    [status |-> "none", pc |-> "none", initial_url |-> << >>,
     files_to_process |-> << >>, processed_urls |-> {}, running |-> TRUE,
     all_files |-> << >>, root_folder_name |-> << >>, current_url |-> << >>,
     data |-> << >>, idx |-> 0]

NoHist ==
    [fetches |-> << >>, failed |-> {}, rootFailed |-> FALSE, emitted |-> << >>,
     stopped |-> FALSE, fetchesAtStop |-> 0, emittedAtStop |-> 0,
     pcAtStop |-> "none", fromDir |-> << >>, stopCalls |-> 0]

\* ParseDufsThread.__init__ followed by QThread.start()
NewThread(url) ==
    [NoThread EXCEPT !.status = "running", !.pc = "root_request",
                     !.initial_url = InitialUrl(url),
                     !.files_to_process =
                         << [type |-> "Dir", url |-> InitialUrl(url)] >>,
                     !.processed_urls = {}, !.running = TRUE]

\* The download folder of downloadFolderCard, and the local directories
\* that exist when the dialog opens.
DownloadFolder == <<"dl">>

\* Only the download folder exists.
EmptyFileSystem == [dirs |-> {DownloadFolder}, files |-> {}]

NoDownload ==
    [done |-> FALSE, raised |-> FALSE, root_folder |-> << >>, items |-> << >>,
     makedirs |-> << >>, tasks |-> << >>]

NoCalc == [op |-> "none"]

\* The dialog as DufsDialog.__init__ leaves it.
DialogInit ==
    /\ threads = [t \in Runs |-> NoThread]
    /\ hist = [t \in Runs |-> NoHist]
    /\ parse_thread = 0
    /\ uiPc = "idle"
    /\ visible = TRUE
    /\ parseEnabled = TRUE
    /\ yesEnabled = TRUE
    /\ root_folder = << >>
    /\ fileTree = << >>
    /\ eventQueue = << >>
    /\ ui = [url |-> NoUrl, calls |-> [t \in Runs |-> 0], stoppedByStart |-> {},
             staleDelivered |-> FALSE, rootFrom |-> 0, treeFrom |-> 0]
    /\ download = NoDownload

Init ==
    /\ server \in Servers
    /\ DialogInit
    /\ fileSystem = EmptyFileSystem
    /\ calc = NoCalc

\* ------------------------------------------------ ParseDufsThread.run
\* Each step holds at most one access to state shared with the UI thread
\* (the flag self.running, the signal emission); what the worker does to its
\* own objects between two such accesses belongs to the same step.

Running(t) == threads[t].status = "running"

At(t, label) == Running(t) /\ threads[t].pc = label

\* run() returns: QThread reports finished
Return(th) == [th EXCEPT !.pc = "done", !.status = "finished"]

\* lines 44-47: the request for the root listing is sent
RootRequest(t) ==
    /\ At(t, "root_request")
    /\ threads' = [threads EXCEPT ![t].all_files = << >>,
                                  ![t].pc = "root_response"]
    /\ hist' = [hist EXCEPT ![t].fetches = Append(@, threads[t].initial_url)]
    /\ UNCHANGED <<server, extraVars, parse_thread, uiPc, dialogVars, eventQueue, ui>>

\* lines 47-55 with a failed root request skipped like any other directory
RootResponse_Skip(t) ==
    /\ At(t, "root_response")
    /\ \E o \in Outcomes(server, threads[t].initial_url) :
         IF o = "ok"
         THEN /\ threads' = [threads EXCEPT
                    ![t].root_folder_name =
                        RootFolderName(threads[t].initial_url,
                                       Href(server, threads[t].initial_url)),
                    ![t].pc = "loop_top"]
              /\ UNCHANGED hist
         ELSE /\ threads' = [threads EXCEPT ![t].pc = "loop_top"]
              /\ hist' = [hist EXCEPT ![t].rootFailed = TRUE]
    /\ UNCHANGED <<server, extraVars, parse_thread, uiPc, dialogVars, eventQueue, ui>>

\* lines 47-55: the root listing arrives, or the request fails
RootResponse(t) ==
    /\ At(t, "root_response")
    /\ \E o \in Outcomes(server, threads[t].initial_url) :
         IF o = "ok"
         THEN /\ threads' = [threads EXCEPT
                    ![t].root_folder_name =
                        RootFolderName(threads[t].initial_url,
                                       Href(server, threads[t].initial_url)),
                    ![t].pc = "loop_top"]
              /\ UNCHANGED hist
         ELSE /\ threads' = [threads EXCEPT ![t].pc = "except"]
              /\ hist' = [hist EXCEPT ![t].rootFailed = TRUE]
    /\ UNCHANGED <<server, extraVars, parse_thread, uiPc, dialogVars, eventQueue, ui>>

\* line 65 with the visited check never true
AlreadyProcessed_Never(th, url) == FALSE

\* line 65: current_url in self.processed_urls
AlreadyProcessed(th, url) == url \in th.processed_urls

\* lines 57-67 without the cancellation check of lines 58-60
LoopTop_NoCheck(t) ==
    /\ At(t, "loop_top")
    /\ LET th == threads[t] IN
         IF th.files_to_process = << >>
         THEN threads' = [threads EXCEPT ![t].pc = "check_emit"]
         ELSE LET current_url == Head(th.files_to_process).url IN
              IF AlreadyProcessed(th, current_url)
              THEN threads' = [threads EXCEPT
                       ![t].files_to_process = Tail(th.files_to_process),
                       ![t].current_url = current_url]
              ELSE threads' = [threads EXCEPT
                       ![t].files_to_process = Tail(th.files_to_process),
                       ![t].current_url = current_url,
                       ![t].processed_urls = @ \cup {current_url},
                       ![t].pc = "request"]
    /\ UNCHANGED <<server, extraVars, hist, parse_thread, uiPc, dialogVars, eventQueue, ui>>

\* lines 57-67: the loop test, the cancellation check, the pop and the
\* visited check
LoopTop(t) ==
    /\ At(t, "loop_top")
    /\ LET th == threads[t] IN
         IF th.files_to_process = << >>
         THEN threads' = [threads EXCEPT ![t].pc = "check_emit"]
         ELSE IF ~th.running
         THEN threads' = [threads EXCEPT ![t] = Return(th)]
         ELSE LET current_url == Head(th.files_to_process).url IN
              IF AlreadyProcessed(th, current_url)
              THEN threads' = [threads EXCEPT
                       ![t].files_to_process = Tail(th.files_to_process),
                       ![t].current_url = current_url]
              ELSE threads' = [threads EXCEPT
                       ![t].files_to_process = Tail(th.files_to_process),
                       ![t].current_url = current_url,
                       ![t].processed_urls = @ \cup {current_url},
                       ![t].pc = "request"]
    /\ UNCHANGED <<server, extraVars, hist, parse_thread, uiPc, dialogVars, eventQueue, ui>>

\* lines 69-73: the request for current_url's listing is sent
Request(t) ==
    /\ At(t, "request")
    /\ threads' = [threads EXCEPT ![t].pc = "response"]
    /\ hist' = [hist EXCEPT ![t].fetches = Append(@, threads[t].current_url)]
    /\ UNCHANGED <<server, extraVars, parse_thread, uiPc, dialogVars, eventQueue, ui>>

\* Where run() goes when the listing of a directory inside the loop does not
\* arrive: a status other than 200 is skipped (lines 74-76), while an
\* exception of urlopen or json.loads leaves the loop for line 101.
AfterFailure(o) == IF o = "status" THEN "loop_top" ELSE "except"

\* lines 73-78: the listing arrives, or the request fails
Response(t) ==
    /\ At(t, "response")
    /\ \E o \in Outcomes(server, threads[t].current_url) :
         IF o = "ok"
         THEN /\ threads' = [threads EXCEPT
                    ![t].data = Listing(server, threads[t].current_url),
                    ![t].idx = 1,
                    ![t].pc = "inner"]
              /\ UNCHANGED hist
         ELSE /\ threads' = [threads EXCEPT ![t].pc = AfterFailure(o)]
              /\ hist' = [hist EXCEPT ![t].failed = @ \cup {threads[t].current_url}]
    /\ UNCHANGED <<server, extraVars, parse_thread, uiPc, dialogVars, eventQueue, ui>>

\* lines 85-96 with a discovered directory not put on the queue
ProcessEntry_NoEnqueue(th, path_info) ==
    LET full_url == UrlJoin(th.current_url, path_info.name)
        relative_path == RelativePath(th.initial_url, full_url)
    IN IF path_info.path_type = "Dir"
       THEN th
       ELSE [th EXCEPT !.all_files =
                           Append(@, [name |-> path_info.name, url |-> full_url,
                                      path |-> relative_path])]

\* lines 85-96 with a discovered directory put at the head of the queue
ProcessEntry_PushFront(th, path_info) ==
    LET full_url == UrlJoin(th.current_url, path_info.name)
        relative_path == RelativePath(th.initial_url, full_url)
    IN IF path_info.path_type = "Dir"
       THEN [th EXCEPT !.files_to_process =
                           << [type |-> "Dir", url |-> full_url] >> \o @]
       ELSE [th EXCEPT !.all_files =
                           Append(@, [name |-> path_info.name, url |-> full_url,
                                      path |-> relative_path])]

\* lines 85-96 with a discovered file put at the head of all_files
ProcessEntry_Prepend(th, path_info) ==
    LET full_url == UrlJoin(th.current_url, path_info.name)
        relative_path == RelativePath(th.initial_url, full_url)
    IN IF path_info.path_type = "Dir"
       THEN [th EXCEPT !.files_to_process =
                           Append(@, [type |-> "Dir", url |-> full_url])]
       ELSE [th EXCEPT !.all_files =
                           << [name |-> path_info.name, url |-> full_url,
                               path |-> relative_path] >> \o @]

\* lines 85-96: one entry of the listing
ProcessEntry(th, path_info) ==
    LET full_url == UrlJoin(th.current_url, path_info.name)
        relative_path == RelativePath(th.initial_url, full_url)
    IN IF path_info.path_type = "Dir"
       THEN [th EXCEPT !.files_to_process =
                           Append(@, [type |-> "Dir", url |-> full_url])]
       ELSE [th EXCEPT !.all_files =
                           Append(@, [name |-> path_info.name, url |-> full_url,
                                      path |-> relative_path])]

\* lines 80-96: one turn of the inner loop
InnerLoop(t) ==
    /\ At(t, "inner")
    /\ LET th == threads[t] IN
         IF th.idx > Len(th.data)
         THEN /\ threads' = [threads EXCEPT ![t].pc = "loop_top"]
              /\ UNCHANGED hist
         ELSE IF ~th.running
         THEN /\ threads' = [threads EXCEPT ![t] = Return(th)]
              /\ UNCHANGED hist
         ELSE LET nt == ProcessEntry(th, th.data[th.idx]) IN
              /\ threads' = [threads EXCEPT ![t] = [nt EXCEPT !.idx = th.idx + 1]]
              /\ hist' = [hist EXCEPT ![t].fromDir =
                            IF Len(nt.all_files) > Len(th.all_files)
                            THEN Append(@, th.current_url) ELSE @]
    /\ UNCHANGED <<server, extraVars, parse_thread, uiPc, dialogVars, eventQueue, ui>>

\* line 98 with the test inverted: if not self.running
CheckEmit_Inverted(t) ==
    /\ At(t, "check_emit")
    /\ threads' = [threads EXCEPT ![t] =
                     IF ~threads[t].running
                     THEN [threads[t] EXCEPT !.pc = "emit_finished"]
                     ELSE Return(threads[t])]
    /\ UNCHANGED <<server, extraVars, hist, parse_thread, uiPc, dialogVars, eventQueue, ui>>

\* line 98: if self.running
CheckEmit(t) ==
    /\ At(t, "check_emit")
    /\ threads' = [threads EXCEPT ![t] =
                     IF threads[t].running
                     THEN [threads[t] EXCEPT !.pc = "emit_finished"]
                     ELSE Return(threads[t])]
    /\ UNCHANGED <<server, extraVars, hist, parse_thread, uiPc, dialogVars, eventQueue, ui>>

\* finished_signal.emit / error_signal.emit from the worker thread: the
\* connection to the dialog's slot is queued, the call is posted to the UI
\* thread's event loop.
FinishedEvent(t, th) ==
    [signal |-> "finished", run |-> t, root |-> th.root_folder_name,
     files |-> th.all_files]

ErrorEvent(t) ==
    [signal |-> "error", run |-> t, root |-> << >>, files |-> << >>]

\* line 99
EmitFinished(t) ==
    /\ At(t, "emit_finished")
    /\ eventQueue' = Append(eventQueue, FinishedEvent(t, threads[t]))
    /\ hist' = [hist EXCEPT ![t].emitted = Append(@, FinishedEvent(t, threads[t]))]
    /\ threads' = [threads EXCEPT ![t].pc = "log_success"]
    /\ UNCHANGED <<server, extraVars, parse_thread, uiPc, dialogVars, ui>>

\* line 100 raising inside the try block: control goes to the except clause
LogSuccess_Raises(t) ==
    /\ At(t, "log_success")
    /\ threads' = [threads EXCEPT ![t].pc = "except"]
    /\ UNCHANGED <<server, extraVars, hist, parse_thread, uiPc, dialogVars, eventQueue, ui>>

\* line 100, then run() returns
LogSuccess(t) ==
    /\ At(t, "log_success")
    /\ threads' = [threads EXCEPT ![t] = Return(threads[t])]
    /\ UNCHANGED <<server, extraVars, hist, parse_thread, uiPc, dialogVars, eventQueue, ui>>

\* lines 101-103: except Exception, if self.running
ExceptHandler(t) ==
    /\ At(t, "except")
    /\ threads' = [threads EXCEPT ![t] =
                     IF threads[t].running
                     THEN [threads[t] EXCEPT !.pc = "emit_error"]
                     ELSE Return(threads[t])]
    /\ UNCHANGED <<server, extraVars, hist, parse_thread, uiPc, dialogVars, eventQueue, ui>>

\* line 104, then run() returns
EmitError(t) ==
    /\ At(t, "emit_error")
    /\ eventQueue' = Append(eventQueue, ErrorEvent(t))
    /\ hist' = [hist EXCEPT ![t].emitted = Append(@, ErrorEvent(t))]
    /\ threads' = [threads EXCEPT ![t] = Return(threads[t])]
    /\ UNCHANGED <<server, extraVars, parse_thread, uiPc, dialogVars, ui>>

WorkerStep(t) ==
    \/ RootRequest(t)
    \/ RootResponse(t)
    \/ LoopTop(t)
    \/ Request(t)
    \/ Response(t)
    \/ InnerLoop(t)
    \/ CheckEmit(t)
    \/ EmitFinished(t)
    \/ LogSuccess(t)
    \/ ExceptHandler(t)
    \/ EmitError(t)

\* ------------------------------------------------------- DufsDialog
\* stop() flipping the flag instead of clearing it
Stop_Toggle(t) ==
    /\ threads' = [threads EXCEPT ![t].running = ~@]
    /\ hist' = [hist EXCEPT ![t] =
                  IF hist[t].stopped \/ ~Running(t)
                  THEN [@ EXCEPT !.stopCalls = @ + 1]
                  ELSE [@ EXCEPT !.stopped = TRUE,
                                 !.stopCalls = @ + 1,
                                 !.pcAtStop = threads[t].pc,
                                 !.fetchesAtStop = Len(hist[t].fetches),
                                 !.emittedAtStop = Len(hist[t].emitted)]]

\* ParseDufsThread.stop, lines 33-36, called from the UI thread
Stop(t) ==
    /\ threads' = [threads EXCEPT ![t].running = FALSE]
    /\ hist' = [hist EXCEPT ![t] =
                  IF hist[t].stopped \/ ~Running(t)
                  THEN [@ EXCEPT !.stopCalls = @ + 1]
                  ELSE [@ EXCEPT !.stopped = TRUE,
                                 !.stopCalls = @ + 1,
                                 !.pcAtStop = threads[t].pc,
                                 !.fetchesAtStop = Len(hist[t].fetches),
                                 !.emittedAtStop = Len(hist[t].emitted)]]

\* line 151: self.parse_thread and self.parse_thread.isRunning()
ThreadIsRunning == parse_thread # 0 /\ Running(parse_thread)

\* wait() left out: the UI thread goes on at once
WaitReturned_NoWait(t) == TRUE

\* line 153 (and 219): self.parse_thread.wait() returns once run() has returned
WaitReturned(t) == threads[t].status = "finished"

\* lines 155-161 with line 161 left out: yesButton stays as it is
CreateAndStart_YesEnabled(url) ==
    LET old == parse_thread
        new == parse_thread + 1
        dropped(f, none) == IF old # 0 /\ ~Running(old)
                            THEN [f EXCEPT ![old] = none] ELSE f
    IN /\ parse_thread' = new
       /\ threads' = [dropped(threads, NoThread) EXCEPT ![new] = NewThread(url)]
       /\ hist' = dropped(hist, NoHist)
       /\ parseEnabled' = FALSE
       /\ yesEnabled' = yesEnabled
       /\ uiPc' = "idle"

\* lines 155-161: the new thread replaces the previous one, whose object is
\* dropped with its last reference
CreateAndStart(url) ==
    LET old == parse_thread
        new == parse_thread + 1
        dropped(f, none) == IF old # 0 /\ ~Running(old)
                            THEN [f EXCEPT ![old] = none] ELSE f
    IN /\ parse_thread' = new
       /\ threads' = [dropped(threads, NoThread) EXCEPT ![new] = NewThread(url)]
       /\ hist' = dropped(hist, NoHist)
       /\ parseEnabled' = FALSE
       /\ yesEnabled' = FALSE
       /\ uiPc' = "idle"

\* start_parsing with no thread running: lines 146-161 in one go
StartParsing ==
    /\ uiPc = "idle" /\ visible
    /\ parse_thread < MaxStarts
    /\ ~ThreadIsRunning
    /\ \E url \in UrlInputs :
         /\ url # NoUrl
         /\ CreateAndStart(url)
         /\ ui' = [ui EXCEPT !.url = NoUrl]
    /\ UNCHANGED <<server, extraVars, visible, root_folder, fileTree, eventQueue>>

\* start_parsing with a thread running, lines 146-153: stop() and the UI
\* thread blocks in wait()
StartParsingStop ==
    /\ uiPc = "idle" /\ visible
    /\ parse_thread < MaxStarts
    /\ ThreadIsRunning
    /\ \E url \in UrlInputs :
         /\ url # NoUrl
         /\ ui' = [ui EXCEPT !.url = url,
                             !.stoppedByStart = @ \cup {parse_thread}]
    /\ Stop(parse_thread)
    /\ uiPc' = "start_wait"
    /\ UNCHANGED <<server, extraVars, parse_thread, dialogVars, eventQueue>>

\* start_parsing, lines 153-161: wait() returns
StartParsingResume ==
    /\ uiPc = "start_wait"
    /\ WaitReturned(parse_thread)
    /\ CreateAndStart(ui.url)
    /\ ui' = [ui EXCEPT !.url = NoUrl]
    /\ UNCHANGED <<server, extraVars, visible, root_folder, fileTree, eventQueue>>

\* The UI event loop calls the slot of the queued signal at the head: the
\* bookkeeping of the call.
HandlerCalled(e) ==
    [ui EXCEPT !.calls[e.run] = @ + 1,
               !.staleDelivered = @ \/ e.run \in ui.stoppedByStart]

\* lines 166-171: the items built from file_list
TreeItems(file_list) ==
    [i \in 1..Len(file_list) |->
        [name |-> file_list[i].name, path |-> file_list[i].path,
         url |-> file_list[i].url, checked |-> TRUE]]

\* lines 163-174 with line 165 left out: root_folder keeps its value
OnParsingFinished_TreeOnly ==
    /\ uiPc = "idle"
    /\ eventQueue # << >>
    /\ Head(eventQueue).signal = "finished"
    /\ eventQueue' = Tail(eventQueue)
    /\ IF ~visible
       THEN /\ ui' = HandlerCalled(Head(eventQueue))
            /\ UNCHANGED <<root_folder, fileTree, parseEnabled, yesEnabled>>
       ELSE /\ ui' = [HandlerCalled(Head(eventQueue)) EXCEPT
                         !.treeFrom = Head(eventQueue).run]
            /\ root_folder' = root_folder
            /\ fileTree' = TreeItems(Head(eventQueue).files)
            /\ parseEnabled' = TRUE
            /\ yesEnabled' = TRUE
    /\ UNCHANGED <<server, extraVars, workerVars, parse_thread, uiPc, visible>>

\* lines 163-174; ui.rootFrom and ui.treeFrom name the crawl whose result
\* root_folder and the tree were filled from
OnParsingFinished ==
    /\ uiPc = "idle"
    /\ eventQueue # << >>
    /\ Head(eventQueue).signal = "finished"
    /\ eventQueue' = Tail(eventQueue)
    /\ IF ~visible
       THEN /\ ui' = HandlerCalled(Head(eventQueue))
            /\ UNCHANGED <<root_folder, fileTree, parseEnabled, yesEnabled>>
       ELSE /\ ui' = [HandlerCalled(Head(eventQueue)) EXCEPT
                         !.rootFrom = Head(eventQueue).run,
                         !.treeFrom = Head(eventQueue).run]
            /\ root_folder' = Head(eventQueue).root
            /\ fileTree' = TreeItems(Head(eventQueue).files)
            /\ parseEnabled' = TRUE
            /\ yesEnabled' = TRUE
    /\ UNCHANGED <<server, extraVars, workerVars, parse_thread, uiPc, visible>>

\* lines 176-187
OnParsingError ==
    /\ uiPc = "idle"
    /\ eventQueue # << >>
    /\ Head(eventQueue).signal = "error"
    /\ eventQueue' = Tail(eventQueue)
    /\ ui' = HandlerCalled(Head(eventQueue))
    /\ IF ~visible
       THEN UNCHANGED <<parseEnabled, yesEnabled>>
       ELSE /\ parseEnabled' = TRUE
            /\ yesEnabled' = TRUE
    /\ UNCHANGED <<server, extraVars, workerVars, parse_thread, uiPc, visible, root_folder,
                   fileTree>>

\* closeEvent with no thread running, lines 216-220
CloseEvent ==
    /\ uiPc = "idle" /\ visible
    /\ ~ThreadIsRunning
    /\ visible' = FALSE
    /\ UNCHANGED <<server, extraVars, workerVars, parse_thread, uiPc, parseEnabled,
                   yesEnabled, root_folder, fileTree, eventQueue, ui>>

\* closeEvent with a thread running, lines 217-219: stop() and wait()
CloseEventStop ==
    /\ uiPc = "idle" /\ visible
    /\ ThreadIsRunning
    /\ Stop(parse_thread)
    /\ uiPc' = "close_wait"
    /\ UNCHANGED <<server, extraVars, parse_thread, dialogVars, eventQueue, ui>>

\* closeEvent, lines 219-220: wait() returns, the dialog closes
CloseEventResume ==
    /\ uiPc = "close_wait"
    /\ WaitReturned(parse_thread)
    /\ uiPc' = "idle"
    /\ visible' = FALSE
    /\ UNCHANGED <<server, extraVars, workerVars, parse_thread, parseEnabled, yesEnabled,
                   root_folder, fileTree, eventQueue, ui>>

\* --------------------------------------------------- start_download
\* A local path is the sequence of its segments.
Prefixes(path) == { SubSeq(path, 1, n) : n \in 1..Len(path) }

\* os.path.exists: true of a directory and of a regular file alike
PathExists(fs, path) == path \in fs.dirs \cup fs.files

\* os.makedirs(path) raises when path exists or when a regular file is in
\* the way of one of its segments
MakeDirsRaises(fs, path) ==
    path \in fs.dirs \/ \E q \in Prefixes(path) : q \in fs.files

\* os.makedirs(path): every missing directory on the way is created
MakeDirs(fs, path) == [fs EXCEPT !.dirs = @ \cup Prefixes(path)]

\* lines 197-199 and 209-210: the exists-check, then os.makedirs.  st holds
\* the file system, the makedirs calls and tasks so far, and whether an
\* exception was raised.
EnsureDir(st, path) ==
    IF PathExists(st.fs, path) THEN st
    ELSE IF MakeDirsRaises(st.fs, path) THEN [st EXCEPT !.raised = TRUE]
    ELSE [st EXCEPT !.fs = MakeDirs(st.fs, path),
                    !.makedirs = Append(@, [path |-> path,
                                            existed |-> path \in st.fs.dirs])]

\* lines 201-212: the loop over the items of the tree, from item i on
RECURSIVE DownloadItems(_, _, _, _)
DownloadItems(items, i, task_root_path, st) ==
    IF i > Len(items) \/ st.raised THEN st
    ELSE IF ~items[i].checked THEN DownloadItems(items, i + 1, task_root_path, st)
    ELSE LET local_file_path == task_root_path \o Front(items[i].path)
             made == EnsureDir(st, local_file_path)
         IN IF made.raised THEN made
            ELSE DownloadItems(items, i + 1, task_root_path,
                    [made EXCEPT !.tasks =
                        Append(@, [url |-> items[i].url,
                                   fileName |-> items[i].name,
                                   filePath |-> local_file_path,
                                   isDir |-> local_file_path \in made.fs.dirs])])

\* lines 189-214; an exception of os.makedirs leaves the handler before
\* accept(), which otherwise hides the dialog
StartDownload ==
    /\ uiPc = "idle" /\ visible
    /\ ~download.done
    /\ LET task_root_path == DownloadFolder \o root_folder
           st == DownloadItems(fileTree, 1, task_root_path,
                    EnsureDir([fs |-> fileSystem, makedirs |-> << >>,
                               tasks |-> << >>, raised |-> FALSE],
                              task_root_path))
       IN /\ fileSystem' = st.fs
          /\ download' = [done |-> TRUE, raised |-> st.raised,
                          root_folder |-> root_folder, items |-> fileTree,
                          makedirs |-> st.makedirs, tasks |-> st.tasks]
          /\ visible' = IF st.raised THEN visible ELSE FALSE
    /\ UNCHANGED <<server, calc, workerVars, parse_thread, uiPc, parseEnabled,
                   yesEnabled, root_folder, fileTree, eventQueue, ui>>

\* lines 169-170: the user checks or unchecks an item of the tree
ToggleItem ==
    /\ uiPc = "idle" /\ visible
    /\ ~download.done
    /\ \E i \in 1..Len(fileTree) :
         fileTree' = [fileTree EXCEPT ![i].checked = ~@]
    /\ UNCHANGED <<server, extraVars, workerVars, parse_thread, uiPc, visible,
                   parseEnabled, yesEnabled, root_folder, eventQueue, ui>>

\* stop() called on the dialog's thread object from the UI thread at any
\* time, whether or not run() has returned and whether or not stop() was
\* called before.
StopCalled ==
    /\ uiPc = "idle"
    /\ parse_thread # 0
    /\ hist[parse_thread].stopCalls < MaxStopCalls
    /\ Stop(parse_thread)
    /\ UNCHANGED <<server, extraVars, parse_thread, uiPc, dialogVars, eventQueue, ui>>

Worker == \E t \in Runs : WorkerStep(t)

Next ==
    \/ Worker
    \/ StartParsing
    \/ StartParsingStop
    \/ StartParsingResume
    \/ OnParsingFinished
    \/ OnParsingError
    \/ CloseEvent
    \/ CloseEventStop
    \/ CloseEventResume

Spec == Init /\ [][Next]_vars

\* The worker thread is scheduled: a step of run() that can be taken is
\* taken, and every request returns.
FairSpec == Spec /\ \A t \in Runs : WF_vars(WorkerStep(t))

\* The dialog in front of the wide tree.
WideInit ==
    /\ server = "wide"
    /\ DialogInit
    /\ fileSystem = EmptyFileSystem
    /\ calc = NoCalc

WideSpec == WideInit /\ [][Next]_vars

\* The dialog with the items toggled and the download confirmed, over local
\* folders where nothing, the directories or a regular file named "a" is
\* already there.
InitialFileSystems ==
    { EmptyFileSystem,
      [dirs |-> {DownloadFolder, DownloadFolder \o <<"files">>,
                 DownloadFolder \o <<"files", "a">>},
       files |-> {}],
      [dirs |-> {DownloadFolder, DownloadFolder \o <<"files">>},
       files |-> {DownloadFolder \o <<"files", "a">>}] }

DownloadInit ==
    /\ server \in Servers
    /\ DialogInit
    /\ fileSystem \in InitialFileSystems
    /\ calc = NoCalc

DownloadNext == Next \/ ToggleItem \/ StartDownload

DownloadSpec == DownloadInit /\ [][DownloadNext]_vars

\* The dialog used through its buttons only: start_parsing is the slot of
\* parseButton.clicked and start_download that of yesButton.clicked, and a
\* disabled button is not clicked.
GatedNext ==
    \/ Worker
    \/ parseEnabled /\ StartParsing
    \/ parseEnabled /\ StartParsingStop
    \/ StartParsingResume
    \/ OnParsingFinished
    \/ OnParsingError
    \/ CloseEvent
    \/ CloseEventStop
    \/ CloseEventResume
    \/ ToggleItem
    \/ yesEnabled /\ StartDownload

GatedSpec == Init /\ [][GatedNext]_vars

\* ------------------------------------------- the string helpers of run()
\* Here a string is the sequence of its characters.  The scheme "http:" is
\* one character of its own: quote() escapes ":", so no quoted name holds it.
MaxNameLen == 4         \* length of the entry names explored

MaxHrefLen == 3         \* length of the href values explored

S1(c) == << c >>

\* urllib.parse.quote(name): "/" and "." are kept, "%" and " " are escaped
RECURSIVE Quote(_)
Quote(str) ==
    IF str = << >> THEN << >>
    ELSE (CASE Head(str) = "%" -> << "%", "2", "5" >>
            [] Head(str) = " " -> << "%", "2", "0" >>
            [] OTHER           -> S1(Head(str))) \o Quote(Tail(str))

\* The hexadecimal digits of the strings explored here.
HexDigits == { "0", "2", "5", "F" }

\* The character a %XX escape stands for, "" when XX is not two hexadecimal
\* digits; "?" is any character other than "%", " " and "/".
Escaped(a, b) ==
    CASE a = "2" /\ b = "5" -> "%"
      [] a = "2" /\ b = "0" -> " "
      [] a = "2" /\ b = "F" -> "/"
      [] a \in HexDigits /\ b \in HexDigits -> "?"
      [] OTHER              -> ""

\* urllib.parse.unquote: every %XX is decoded, once
RECURSIVE Unquote(_)
Unquote(str) ==
    IF str = << >> THEN << >>
    ELSE IF Head(str) = "%" /\ Len(str) >= 3 /\ Escaped(str[2], str[3]) # ""
         THEN S1(Escaped(str[2], str[3])) \o Unquote(SubSeq(str, 4, Len(str)))
    ELSE S1(Head(str)) \o Unquote(Tail(str))

\* str.split('/')
RECURSIVE SplitFrom(_, _, _)
SplitFrom(str, cur, acc) ==
    IF str = << >> THEN Append(acc, cur)
    ELSE IF Head(str) = "/" THEN SplitFrom(Tail(str), << >>, Append(acc, cur))
    ELSE SplitFrom(Tail(str), Append(cur, Head(str)), acc)

Split(str) == SplitFrom(str, << >>, << >>)

\* '/'.join(segments)
RECURSIVE Join(_)
Join(segments) ==
    IF segments = << >> THEN << >>
    ELSE IF Len(segments) = 1 THEN segments[1]
    ELSE segments[1] \o << "/" >> \o Join(Tail(segments))

\* str.strip('/')
RECURSIVE LStrip(_)
LStrip(str) == IF str # << >> /\ Head(str) = "/" THEN LStrip(Tail(str)) ELSE str

RECURSIVE RStrip(_)
RStrip(str) ==
    IF str # << >> /\ str[Len(str)] = "/" THEN RStrip(Front(str)) ELSE str

Strip(str) == RStrip(LStrip(str))

\* str.replace(old, ''): every occurrence of old, left to right
RECURSIVE Replace(_, _)
Replace(str, old) ==
    IF old = << >> \/ Len(str) < Len(old) THEN str
    ELSE IF IsPrefix(old, str) THEN Replace(SubSeq(str, Len(old) + 1, Len(str)), old)
    ELSE S1(Head(str)) \o Replace(Tail(str), old)

\* The index of the first "/" of str, Len(str) + 1 when it has none.
RECURSIVE FirstSlash(_, _)
FirstSlash(str, i) ==
    IF i > Len(str) \/ str[i] = "/" THEN i ELSE FirstSlash(str, i + 1)

\* urlparse of an absolute URL "http://netloc/path"
ParseUrl(url) ==
    LET rest == SubSeq(url, 4, Len(url))
        i == FirstSlash(rest, 1)
    IN [netloc |-> SubSeq(rest, 1, i - 1), path |-> SubSeq(rest, i, Len(rest))]

\* urlparse of a quoted name: it has no scheme, query or fragment; a leading
\* "//" starts a netloc
ParseRef(url) ==
    IF Len(url) >= 2 /\ url[1] = "/" /\ url[2] = "/"
    THEN LET rest == SubSeq(url, 3, Len(url))
             i == FirstSlash(rest, 1)
         IN [netloc |-> SubSeq(rest, 1, i - 1), path |-> SubSeq(rest, i, Len(rest))]
    ELSE [netloc |-> << >>, path |-> url]

\* urlunparse for the scheme http and a netloc that is not empty
Unparse(netloc, path) ==
    << "http:", "/", "/" >> \o netloc \o
        (IF path # << >> /\ Head(path) # "/" THEN << "/" >> \o path ELSE path)

\* segments[1:-1] = filter(None, segments[1:-1])
FilterMiddle(segments) ==
    IF Len(segments) <= 2 THEN segments
    ELSE << segments[1] >>
           \o SelectSeq(SubSeq(segments, 2, Len(segments) - 1), LAMBDA x : x # << >>)
           \o << segments[Len(segments)] >>

\* The loop of urljoin over the segments: ".." pops, "." is dropped
RECURSIVE Resolve(_, _)
Resolve(segments, resolved_path) ==
    IF segments = << >> THEN resolved_path
    ELSE IF Head(segments) = << ".", "." >>
         THEN Resolve(Tail(segments),
                      IF resolved_path = << >> THEN << >> ELSE Front(resolved_path))
    ELSE IF Head(segments) = << "." >> THEN Resolve(Tail(segments), resolved_path)
    ELSE Resolve(Tail(segments), Append(resolved_path, Head(segments)))

\* urllib.parse.urljoin(base, url) for an absolute base and a quoted name
UrlJoinStr(base, url) ==
    LET b == ParseUrl(base)
        r == ParseRef(url)
    IN IF r.netloc # << >> THEN Unparse(r.netloc, r.path)
       ELSE IF r.path = << >> THEN Unparse(b.netloc, b.path)
       ELSE LET base_parts == IF Split(b.path)[Len(Split(b.path))] # << >>
                              THEN Front(Split(b.path)) ELSE Split(b.path)
                segments == IF Head(r.path) = "/" THEN Split(r.path)
                            ELSE FilterMiddle(base_parts \o Split(r.path))
                last == segments[Len(segments)]
                resolved_path ==
                    IF last \in {<< "." >>, << ".", "." >>}
                    THEN Append(Resolve(segments, << >>), << >>)
                    ELSE Resolve(segments, << >>)
            IN Unparse(b.netloc,
                       IF Join(resolved_path) = << >> THEN << "/" >>
                       ELSE Join(resolved_path))

\* lines 86-87: full_url
FullUrl(current_url, name) == UrlJoinStr(current_url, Quote(name))

\* line 89: relative_path
RelativePathStr(initial_url, full_url) == Unquote(Replace(full_url, initial_url))

\* lines 52-54: root_folder_name; Absent is a root listing without "href"
Absent == << "absent" >>

RootFolderNameStr_StripFirst(initial_url, href) ==
    LET name == Unquote(Strip(IF href = Absent THEN << "/" >> ELSE href))
    IN IF name # << >> THEN name
       ELSE LET parts == Split(Strip(ParseUrl(initial_url).path))
            IN Unquote(parts[Len(parts)])

RootFolderNameStr(initial_url, href) ==
    LET name == Strip(Unquote(IF href = Absent THEN << "/" >> ELSE href))
    IN IF name # << >> THEN name
       ELSE LET parts == Split(Strip(ParseUrl(initial_url).path))
            IN Unquote(parts[Len(parts)])

\* ------------------------------- the two computations on their own
\* Root URLs as __init__ leaves them (stripped, ending in "/"):
\* http://h/, http://h/x/ and http://h/m%20s/
HostRoot == << "http:", "/", "/", "h", "/" >>

RootStrs ==
    { HostRoot,
      HostRoot \o << "x", "/" >>,
      HostRoot \o << "m", "%", "2", "0", "s", "/" >> }

\* The directory an entry is listed in: the root or its subdirectory x/
CurrentUrls(initial_url) == { initial_url, initial_url \o << "x", "/" >> }

NameChars == { "x", "/", ".", "%" }

Names == UNION { [1..n -> NameChars] : n \in 1..MaxNameLen }

HrefChars == { "x", "/", "%", "2", "F" }

Hrefs == UNION { [1..n -> HrefChars] : n \in 0..MaxHrefLen } \cup { Absent }

PathInputs ==
    { [op |-> "entry", initial_url |-> r, current_url |-> c, name |-> n] :
        <<r, c, n>> \in { x \in RootStrs \X (UNION { CurrentUrls(r) : r \in RootStrs })
                                 \X Names : x[2] \in CurrentUrls(x[1]) } }
    \cup { [op |-> "root", initial_url |-> r, href |-> h] :
             <<r, h>> \in RootStrs \X Hrefs }

PathInit ==
    /\ server = "tree"
    /\ DialogInit
    /\ fileSystem = EmptyFileSystem
    /\ calc \in PathInputs

\* lines 85-89 for one entry of a listing
ComputeRelativePath ==
    /\ calc.op = "entry"
    /\ calc' = [op |-> "relative_path",
                initial_url |-> calc.initial_url,
                name |-> calc.name,
                full_url |-> FullUrl(calc.current_url, calc.name),
                relative_path |->
                    RelativePathStr(calc.initial_url,
                                    FullUrl(calc.current_url, calc.name))]
    /\ UNCHANGED <<server, fileSystem, download, workerVars, parse_thread, uiPc,
                   dialogVars, eventQueue, ui>>

\* lines 52-54 for one root listing
ComputeRootFolderName ==
    /\ calc.op = "root"
    /\ calc' = [op |-> "root_folder_name",
                initial_url |-> calc.initial_url,
                href |-> calc.href,
                root_folder_name |-> RootFolderNameStr(calc.initial_url, calc.href)]
    /\ UNCHANGED <<server, fileSystem, download, workerVars, parse_thread, uiPc,
                   dialogVars, eventQueue, ui>>

PathNext == ComputeRelativePath \/ ComputeRootFolderName

PathSpec == PathInit /\ [][PathNext]_vars

\* The dialog with stop() also called directly.
StopNext == Next \/ StopCalled

StopSpec == Init /\ [][StopNext]_vars

\* ------------------------------------------------------------ properties
Finished(t) == threads[t].status = "finished"

Signals(t) == [i \in 1..Len(hist[t].emitted) |-> hist[t].emitted[i].signal]

\* stop() was never called on thread t
NeverStopped(t) == threads[t].running

\* The URLs of the files that the listings of the directories in dirs name.
ListedFiles(dirs) ==
    UNION {{UrlJoin(d, Listing(server, d)[i].name) :
              i \in {j \in 1..Len(Listing(server, d)) :
                        Listing(server, d)[j].path_type # "Dir"}} : d \in dirs}

FileUrls(files) == {files[i].url : i \in 1..Len(files)}

\* C1: when the root listing is fetched and the fetch of some other directory
\* fails (status, exception or malformed JSON), a crawl that is not stopped
\* ends with finished_signal alone, carrying exactly the files listed by the
\* directories that were fetched.
C1_SubtreeFailureResilience ==
    \A t \in Runs :
        ( /\ Finished(t) /\ NeverStopped(t)
          /\ ~hist[t].rootFailed
          /\ threads[t].initial_url \notin hist[t].failed
          /\ hist[t].failed # {} )
        => /\ Signals(t) = << "finished" >>
           /\ FileUrls(hist[t].emitted[1].files) =
                  ListedFiles(threads[t].processed_urls \ hist[t].failed)

\* C2: once stop() has been called on a crawl whose run() has not returned,
\* that run emits neither finished_signal nor error_signal.
C2_CancellationDiscardsResults ==
    \A t \in Runs :
        hist[t].stopped => Len(hist[t].emitted) = hist[t].emittedAtStop

\* C3: counting the root request and the requests of the traversal loop, no
\* directory URL is requested twice within one run.
C3_NoUrlRequestedTwice ==
    \A t \in Runs :
        \A i, j \in 1..Len(hist[t].fetches) :
            i # j => hist[t].fetches[i] # hist[t].fetches[j]

\* C4: a handler is called at most once for each start_parsing, and the
\* result of a crawler that a later start_parsing stopped is not delivered
\* after that start.
C4_OneResultPerStart ==
    /\ \A t \in Runs : ui.calls[t] <= 1
    /\ ~ui.staleDelivered

\* C5: at most one worker executes run() at any time, and a new worker is
\* created and started only when no other worker is running; when
\* start_parsing found a worker running, it has called stop() on it and that
\* worker's run() has returned.
C5_SingleActiveCrawler ==
    /\ [](Cardinality({t \in Runs : Running(t)}) <= 1)
    /\ [][\A n \in Runs :
            (threads[n].status = "none" /\ threads'[n].status = "running")
            => /\ \A t \in Runs : ~Running(t)
               /\ uiPc = "start_wait"
                    => /\ ~threads[parse_thread].running
                       /\ Finished(parse_thread)]_vars

\* A second worker runs after start_parsing stopped the first and waited.
C5_Witness ==
    /\ parse_thread = 2
    /\ 1 \in ui.stoppedByStart
    /\ Running(2)

\* C6: a run emits at most one terminal signal: never finished_signal and
\* error_signal both, never one of them twice.
C6_AtMostOneSignal ==
    \A t \in Runs : Len(hist[t].emitted) <= 1

\* A run that was stopped while in progress and has emitted its one signal.
C6_Witness ==
    \E t \in Runs : hist[t].stopped /\ Finished(t) /\ Len(hist[t].emitted) = 1

\* C7: a run on which stop() is never called, and whose requests all
\* return, eventually emits exactly one of finished_signal and error_signal
\* and returns.
C7_EventualResult ==
    \A t \in Runs :
        Running(t) ~> ( \/ ~NeverStopped(t)
                        \/ Finished(t) /\ Len(hist[t].emitted) = 1 )

\* A crawl that went through the traversal loop, was never stopped, and has
\* returned having emitted one signal.
C7_Witness ==
    \E t \in Runs :
        /\ Finished(t) /\ NeverStopped(t)
        /\ Len(hist[t].fetches) > 2
        /\ Len(hist[t].emitted) = 1

\* C8: when the root request fails, finished_signal is never emitted, no
\* further request is made and all_files stays empty; if stop() was not
\* called, the run ends having emitted error_signal.
C8_RootFailureShortCircuit ==
    \A t \in Runs :
        hist[t].rootFailed
        => /\ \A i \in 1..Len(hist[t].emitted) : hist[t].emitted[i].signal = "error"
           /\ Len(hist[t].fetches) = 1
           /\ threads[t].all_files = << >>
           /\ (Finished(t) /\ NeverStopped(t)) => hist[t].emitted = << ErrorEvent(t) >>

\* The root request failed, stop() was not called, error_signal was emitted.
C8_Witness ==
    \E t \in Runs :
        /\ hist[t].rootFailed /\ Finished(t) /\ NeverStopped(t)
        /\ hist[t].emitted = << ErrorEvent(t) >>

\* The files of the tree server, at every depth.
TreeFiles == { <<"files", "f">>, <<"files", "a", "g">>, <<"files", "a", "b", "h">> }

TreeDirs == { <<"files">>, <<"files", "a">>, <<"files", "a", "b">> }

\* C9: on a directory tree, with no failed request and no stop(), the list
\* emitted with finished_signal holds every file of the tree at every depth
\* exactly once, and no directory.
C9_BreadthFirstCompleteness ==
    \A t \in Runs :
        ( /\ server = "tree"
          /\ Finished(t) /\ NeverStopped(t)
          /\ ~hist[t].rootFailed /\ hist[t].failed = {} )
        => /\ Signals(t) = << "finished" >>
           /\ LET files == hist[t].emitted[1].files IN
                /\ FileUrls(files) = TreeFiles
                /\ Len(files) = Cardinality(TreeFiles)
                /\ FileUrls(files) \cap TreeDirs = {}

\* The tree was crawled without failure and finished_signal carried 3 files.
C9_Witness ==
    \E t \in Runs :
        /\ server = "tree"
        /\ Finished(t) /\ NeverStopped(t)
        /\ ~hist[t].rootFailed /\ hist[t].failed = {}
        /\ Signals(t) = << "finished" >>
        /\ Len(hist[t].emitted[1].files) = 3

\* The requests of run t that were sent after stop() was called on it.
FetchedAfterStop(t) ==
    {hist[t].fetches[i] : i \in (hist[t].fetchesAtStop + 1)..Len(hist[t].fetches)}

\* C10 as stated: after stop() has been called on a running worker, the
\* worker sends at most one further request, and only one whose cancellation
\* check (line 58) had passed before the stop; all_files holds no file of a
\* directory requested after the stop.
C10_AsStated ==
    \A t \in Runs :
        hist[t].stopped
        => /\ Len(hist[t].fetches) <= hist[t].fetchesAtStop + 1
           /\ Len(hist[t].fetches) > hist[t].fetchesAtStop
                => hist[t].pcAtStop = "request"
           /\ \A i \in 1..Len(hist[t].fromDir) :
                 hist[t].fromDir[i] \notin FetchedAfterStop(t)

\* C10, amended: after stop() has been called on a running worker, the
\* worker sends at most one further request: one whose cancellation check
\* had passed before the stop, or the root request of lines 44-47, which no
\* cancellation check precedes; all_files holds no file of a directory
\* requested after the stop; and the worker eventually returns.
C10_BoundedCancellation ==
    /\ [](\A t \in Runs :
            hist[t].stopped
            => /\ Len(hist[t].fetches) <= hist[t].fetchesAtStop + 1
               /\ Len(hist[t].fetches) > hist[t].fetchesAtStop
                    => hist[t].pcAtStop \in {"request", "root_request"}
               /\ \A i \in 1..Len(hist[t].fromDir) :
                     hist[t].fromDir[i] \notin FetchedAfterStop(t))
    /\ \A t \in Runs : (hist[t].stopped /\ Running(t)) ~> ~Running(t)

\* A worker stopped between its cancellation check and its request sent that
\* one request, appended nothing from it, and has returned.
C10_Witness ==
    \E t \in Runs :
        /\ hist[t].stopped
        /\ hist[t].pcAtStop = "request"
        /\ Len(hist[t].fetches) = hist[t].fetchesAtStop + 1
        /\ Finished(t)

\* C11: a call of stop() only clears the flag of the thread; a call on a
\* thread whose flag is already cleared leaves the thread as it is; no call
\* emits a signal or touches the queued results; and a thread whose run() has
\* returned emits nothing more.
C11_StopIdempotent ==
    [][\A t \in Runs :
         /\ hist'[t].stopCalls = hist[t].stopCalls + 1
              => /\ threads'[t] = [threads[t] EXCEPT !.running = FALSE]
                 /\ ~threads[t].running => threads'[t] = threads[t]
                 /\ hist'[t].emitted = hist[t].emitted
                 /\ eventQueue' = eventQueue
                 /\ <<root_folder, fileTree>>' = <<root_folder, fileTree>>
         /\ (Finished(t) /\ threads'[t].status = "finished")
              => hist'[t].emitted = hist[t].emitted]_vars

\* stop() was called twice on a thread that had emitted its result and
\* returned before the first call.
C11_Witness ==
    \E t \in Runs :
        /\ Finished(t)
        /\ hist[t].stopCalls = 2
        /\ ~hist[t].stopped
        /\ Len(hist[t].emitted) = 1

\* C12 (as stated): a file's relative_path is its URL with the root URL prefix
\* stripped and then decoded, with no leading separator and never starting
\* with the root URL; a URL outside the root gives the decoded full URL.
\* Violated: with root http://h/x/ an entry named "/x//" joins to
\* http://h/x// and its relative_path is "/".
C12_RelativePathCorrect ==
    calc.op = "relative_path" =>
        IF IsPrefix(calc.initial_url, calc.full_url)
        THEN /\ calc.relative_path =
                    Unquote(SubSeq(calc.full_url, Len(calc.initial_url) + 1,
                                   Len(calc.full_url)))
             /\ ~IsPrefix(<< "/" >>, calc.relative_path)
             /\ ~IsPrefix(calc.initial_url, calc.relative_path)
        ELSE calc.relative_path = Unquote(calc.full_url)

\* The last segment of a path that is not empty, << >> when it has none.
LastNonEmpty(path) ==
    LET parts == SelectSeq(Split(path), LAMBDA x : x # << >>)
    IN IF parts = << >> THEN << >> ELSE parts[Len(parts)]

\* str without the separators before its first and after its last other
\* character
Trimmed(str) ==
    LET keep == { i \in 1..Len(str) : str[i] # "/" }
    IN IF keep = {} THEN << >>
       ELSE SubSeq(str, CHOOSE i \in keep : \A j \in keep : i <= j,
                        CHOOSE i \in keep : \A j \in keep : i >= j)

\* C13: the root folder name is the decoded href of the root listing with
\* its leading and trailing separators stripped; when that is empty (href
\* "/" or absent) it is the decoded last non-empty path segment of the root
\* URL (nothing when the root URL has no such segment).
C13_RootNameDerivation ==
    calc.op = "root_folder_name" =>
        LET href == IF calc.href = Absent THEN << "/" >> ELSE calc.href
        IN IF Trimmed(Unquote(href)) # << >>
           THEN calc.root_folder_name = Trimmed(Unquote(href))
           ELSE calc.root_folder_name =
                    Unquote(LastNonEmpty(ParseUrl(calc.initial_url).path))

\* href "/" with root URL http://h/m%20s/ gives "m s"; an href that decodes
\* to separators only falls back as well.
C13_Witness ==
    /\ calc.op = "root_folder_name"
    /\ calc.initial_url = HostRoot \o << "m", "%", "2", "0", "s", "/" >>
    /\ calc.href \in { << "/" >>, << "%", "2", "F" >> }
    /\ calc.root_folder_name = << "m", " ", "s" >>

\* The checked items of the tree as start_download found it.
CheckedItems == SelectSeq(download.items, LAMBDA item : item.checked)

\* C14 (as stated): confirming the download submits exactly one task per
\* checked item and none for an unchecked one, each with the item's url,
\* name and the directory <base>/<root_folder>/<dirname(path)>, which exists
\* as a directory when the task is submitted; an existing directory is not
\* created again and raises nothing.
\* Violated: a regular file at <base>/files/a passes os.path.exists, so the
\* task of a/g is submitted with a filePath that is not a directory.
C14_DownloadTaskMapping ==
    download.done =>
        /\ ~download.raised
        /\ Len(download.tasks) = Len(CheckedItems)
        /\ \A i \in 1..Len(download.tasks) :
             /\ download.tasks[i].url = CheckedItems[i].url
             /\ download.tasks[i].fileName = CheckedItems[i].name
             /\ download.tasks[i].filePath =
                    DownloadFolder \o download.root_folder
                        \o Front(CheckedItems[i].path)
             /\ download.tasks[i].isDir
        /\ \A k \in 1..Len(download.makedirs) : ~download.makedirs[k].existed

\* The place of the first request for url in the requests of a crawl, 0 when
\* it was not requested.
FetchPos(fetches, url) ==
    IF \E i \in 1..Len(fetches) : fetches[i] = url
    THEN CHOOSE i \in 1..Len(fetches) :
             fetches[i] = url /\ \A j \in 1..(i - 1) : fetches[j] # url
    ELSE 0

\* The place of the first entry of a listing that joins to url, 0 when there
\* is none.
ListingPos(current_url, url) ==
    LET data == Listing(server, current_url)
        at == { i \in 1..Len(data) : UrlJoin(current_url, data[i].name) = url }
    IN IF at = {} THEN 0 ELSE CHOOSE i \in at : \A j \in at : i <= j

\* C15: the loop pops the head of the queue and appends discovered
\* directories to its tail, so directories are requested in non-decreasing
\* depth, and the directories listed by one directory are requested in the
\* order of its listing.
C15_BreadthFirstOrder ==
    /\ [](\A t \in Runs :
            LET fetches == hist[t].fetches IN
              /\ \A i, j \in 1..Len(fetches) :
                   i < j => Len(fetches[i]) <= Len(fetches[j])
              /\ \A i, j \in 1..Len(fetches) :
                   ( /\ Front(fetches[i]) = Front(fetches[j])
                     /\ 0 < ListingPos(Front(fetches[i]), fetches[i])
                     /\ ListingPos(Front(fetches[i]), fetches[i])
                          < ListingPos(Front(fetches[j]), fetches[j]) )
                   => i < j)
    /\ [][\A t \in Runs :
            (threads[t].status # "none" /\ threads'[t].status # "none") =>
              LET q == threads[t].files_to_process
                  r == threads'[t].files_to_process
              IN \/ r = q
                 \/ q # << >> /\ r = Tail(q)
                 \/ Len(r) = Len(q) + 1 /\ Front(r) = q]_vars

\* The wide tree was crawled to the end: c (depth 1, listed after a) was
\* requested after a and before a's subdirectory b.
C15_Witness ==
    \E t \in Runs :
        /\ server = "wide"
        /\ Finished(t)
        /\ hist[t].fetches = << <<"files">>, <<"files">>, <<"files", "a">>,
                                <<"files", "c">>, <<"files", "a", "b">> >>

\* C16: in the list emitted with finished_signal the files of one directory
\* stand in the order of its listing, and the files of a directory requested
\* earlier stand before those of a directory requested later; all_files
\* only grows at its end during a crawl.
C16_EmittedFileOrder ==
    /\ [](\A t \in Runs : \A e \in 1..Len(hist[t].emitted) :
            LET files == hist[t].emitted[e].files
                dir(i) == Front(files[i].url)
            IN \A i, j \in 1..Len(files) :
                 i < j =>
                   /\ FetchPos(Tail(hist[t].fetches), dir(i)) > 0
                   /\ FetchPos(Tail(hist[t].fetches), dir(i))
                        <= FetchPos(Tail(hist[t].fetches), dir(j))
                   /\ dir(i) = dir(j) =>
                        ( /\ 0 < ListingPos(dir(i), files[i].url)
                          /\ ListingPos(dir(i), files[i].url)
                               < ListingPos(dir(j), files[j].url) ))
    /\ [][\A t \in Runs :
            (threads[t].status # "none" /\ threads'[t].status # "none") =>
              IsPrefix(threads[t].all_files, threads'[t].all_files)]_vars

\* The wide tree was crawled to the end and its five files were emitted:
\* f of the root, then g and k of a, then m of c, then h of a/b.
C16_Witness ==
    \E t \in Runs :
        /\ server = "wide"
        /\ Len(hist[t].emitted) = 1
        /\ LET files == hist[t].emitted[1].files IN
             /\ Len(files) = 5
             /\ [i \in 1..5 |-> files[i].url] =
                  << <<"files", "f">>, <<"files", "a", "g">>, <<"files", "a", "k">>,
                     <<"files", "c", "m">>, <<"files", "a", "b", "h">> >>

\* The directory URLs a server has.
DirUrls(srv) ==
    { url \in { <<"files">>, <<"files", "a">>, <<"files", "c">>,
                <<"files", "a", "b">> } : Exists(srv, url) }

\* C17: with finitely many directory URLs, among them duplicate links and
\* cycles, run() returns once its requests return; the loop requests no URL
\* twice, so at most as many listings as there are directory URLs; a popped
\* URL that is in processed_urls is dropped with no request and nothing
\* added to the queue or to all_files.
C17_TerminationOnCycles ==
    /\ \A t \in Runs : Running(t) ~> ~Running(t)
    /\ [](\A t \in Runs :
            LET loop == Tail(hist[t].fetches) IN
              hist[t].fetches # << >> =>
                /\ \A i, j \in 1..Len(loop) : loop[i] = loop[j] => i = j
                /\ Len(loop) <= Cardinality(DirUrls(server)))
    /\ [][\A t \in Runs :
            ( /\ At(t, "loop_top") /\ threads[t].running
              /\ threads[t].files_to_process # << >>
              /\ Head(threads[t].files_to_process).url \in threads[t].processed_urls
              /\ [threads'[t] EXCEPT !.running = threads[t].running] # threads[t] )
            => /\ threads'[t].files_to_process = Tail(threads[t].files_to_process)
               /\ threads'[t].pc = "loop_top"
               /\ threads'[t].processed_urls = threads[t].processed_urls
               /\ threads'[t].all_files = threads[t].all_files
               /\ hist'[t].fetches = hist[t].fetches]_vars

\* The graph server (a duplicate link "./a" and a cycle "../a") was crawled
\* to the end without failure: a was requested once and both files emitted.
C17_Witness ==
    \E t \in Runs :
        /\ server = "graph"
        /\ Finished(t) /\ NeverStopped(t)
        /\ hist[t].fetches = << <<"files">>, <<"files">>, <<"files", "a">> >>
        /\ Len(hist[t].emitted) = 1
        /\ Len(hist[t].emitted[1].files) = 2

\* A crawl was started and none of its signals has reached its slot.
Unresolved == parse_thread # 0 /\ ui.calls[parse_thread] = 0

\* C18: with start_parsing and start_download run from their enabled buttons
\* only, both buttons are disabled for as long as a crawl was started and
\* its result has not reached the dialog, so start_download never runs then.
C18_NoDownloadDuringCrawl ==
    /\ [](Unresolved => ~parseEnabled /\ ~yesEnabled)
    /\ [][download' # download => ~Unresolved]_vars

\* The second crawl has emitted its result, which is still queued, and the
\* buttons are disabled.
C18_Witness ==
    /\ parse_thread = 2 /\ Unresolved
    /\ Len(hist[2].emitted) = 1
    /\ eventQueue # << >>
    /\ ~parseEnabled /\ ~yesEnabled

\* The entries of the tree without their check state.
TreeEntries(items) ==
    [i \in 1..Len(items) |->
        [name |-> items[i].name, path |-> items[i].path, url |-> items[i].url]]

\* C19: root_folder and the entries of the tree are always filled from the
\* same finished_signal (or both empty); on_parsing_finished on a visible
\* dialog replaces the two together and no other step changes either, so
\* start_download pairs the root folder and the files of one crawl.
C19_TreeAndRootConsistent ==
    /\ [](/\ ui.rootFrom = ui.treeFrom
          /\ ui.rootFrom = 0 => root_folder = << >> /\ fileTree = << >>)
    /\ [][/\ ( \/ root_folder' # root_folder
               \/ TreeEntries(fileTree') # TreeEntries(fileTree)
               \/ ui.rootFrom' # ui.rootFrom \/ ui.treeFrom' # ui.treeFrom )
             => /\ visible /\ eventQueue # << >>
                /\ Head(eventQueue).signal = "finished"
                /\ eventQueue' = Tail(eventQueue)
                /\ root_folder' = Head(eventQueue).root
                /\ TreeEntries(fileTree') = Head(eventQueue).files
                /\ ui.rootFrom' = Head(eventQueue).run
                /\ ui.treeFrom' = Head(eventQueue).run
          /\ download' # download
             => /\ download'.root_folder = root_folder
                /\ download'.items = fileTree
                /\ ui.rootFrom = ui.treeFrom]_vars

\* The result of the first crawl is shown, a second crawl was started and
\* stopped or failed, and the download was confirmed.
C19_Witness ==
    /\ ui.rootFrom = 1 /\ ui.treeFrom = 1
    /\ parse_thread = 2 /\ ui.calls[2] = 1
    /\ fileTree # << >>
    /\ download.done /\ download.tasks # << >>
====
